---- MODULE Spec2Model ----
(***************************************************************************)
(* Model of scripts/consultar_cnpjs_colab.py: the CNPJ normalizer and      *)
(* check-digit validator, the BrasilAPI client with its bounded retry      *)
(* loop, and the deduplicating enrichment pipeline with its final merge.   *)
(*                                                                         *)
(* Python strings are TLA+ strings.  Python's None (and a JSON null) is    *)
(* the reserved value None, which no text of the model equals.  Times are  *)
(* in milliseconds.  The script's texts are written without their accents  *)
(* ("Razao Social", "Erro apos retries: ", "Nao encontrado: ").             *)
(***************************************************************************)
EXTENDS Integers, Sequences, FiniteSets, TLC

VARIABLES
    planilha,        \* the uploaded sheet: the raw cells of column CNPJ, in row order
    df,              \* the data frame: one record per row
    lista_unicos,    \* sorted(set(lista_todos))
    pos,             \* position of the for loop in lista_unicos (1-based)
    resultados_map,  \* identifier -> LookupResult
    ok, inval, err,  \* the run summary's counters
    pc,              \* where the script is
    tentativas,      \* consulta_brasilapi's attempt counter
    r,               \* consulta_brasilapi's last response
    res,             \* the record consulta_brasilapi returned
    exc,             \* the exception that ended the run, if any
    df_final,        \* the merged output rows
    hist,            \* observer: kinds of the failed attempts of the lookup in progress
    nreq,            \* observer: requests issued by the lookup in progress
    sleeps,          \* observer: backoff sleeps taken by the lookup in progress
    chamadas,        \* observer: identifier -> number of consulta_brasilapi calls
    pausas,          \* observer: time spent in the throttle sleeps of the run
    entrada,         \* validator harness: the string given to cnpj_valido
    saida            \* validator harness: what cnpj_valido returned

vars == <<planilha, df, lista_unicos, pos, resultados_map, ok, inval, err, pc,
          tentativas, r, res, exc, df_final, hist, nreq, sleeps, chamadas,
          pausas, entrada, saida>>

-----------------------------------------------------------------------------
(* Configuration *)

MAX_RETRIES == 3

\* 0.8 s, in milliseconds
BACKOFF_BASE == 800

\* 0.15 s, in milliseconds
SLEEP_ENTRE_CHAMADAS == 150

COLUNA_CNPJ == "CNPJ"

\* Longest sheet explored.
MaxRows == 2

-----------------------------------------------------------------------------
(* Python values and string helpers *)

None == "<None>"

Digits == {"0", "1", "2", "3", "4", "5", "6", "7", "8", "9"}

\* int(c) for a one-character digit string
DigitVal(c) ==
    CASE c = "0" -> 0 [] c = "1" -> 1 [] c = "2" -> 2 [] c = "3" -> 3
      [] c = "4" -> 4 [] c = "5" -> 5 [] c = "6" -> 6 [] c = "7" -> 7
      [] c = "8" -> 8 [] c = "9" -> 9

\* str(n) for 0 <= n <= 10
DigitStr(n) ==
    CASE n = 0 -> "0" [] n = 1 -> "1" [] n = 2 -> "2" [] n = 3 -> "3"
      [] n = 4 -> "4" [] n = 5 -> "5" [] n = 6 -> "6" [] n = 7 -> "7"
      [] n = 8 -> "8" [] n = 9 -> "9" [] n = 10 -> "10"

\* s[i-1] of Python, 1-based here
Ch(s, i) == SubSeq(s, i, i)

\* c * n
RECURSIVE Rep(_, _)
Rep(c, n) == IF n <= 0 THEN "" ELSE c \o Rep(c, n - 1)

AllDigits(s) == \A i \in 1..Len(s) : Ch(s, i) \in Digits

\* str.startswith(p)
StartsWith(s, p) == Len(s) >= Len(p) /\ SubSeq(s, 1, Len(p)) = p

\* str.strip(), for the blank the sheets of the model hold
RECURSIVE LStrip(_)
LStrip(s) == IF Len(s) > 0 /\ Ch(s, 1) = " " THEN LStrip(SubSeq(s, 2, Len(s))) ELSE s

RECURSIVE RStrip(_)
RStrip(s) ==
    IF Len(s) > 0 /\ Ch(s, Len(s)) = " " THEN RStrip(SubSeq(s, 1, Len(s) - 1)) ELSE s

Strip(s) == RStrip(LStrip(s))

\* position of the first character of s that is in cs, 0 when there is none
RECURSIVE FindFrom(_, _, _)
FindFrom(s, cs, i) ==
    IF i > Len(s) THEN 0
    ELSE IF Ch(s, i) \in cs THEN i
    ELSE FindFrom(s, cs, i + 1)

\* str(int(digits)): the leading zeros dropped
RECURSIVE IntStr(_)
IntStr(s) ==
    IF Len(s) > 1 /\ Ch(s, 1) = "0" THEN IntStr(SubSeq(s, 2, Len(s))) ELSE s

\* int(numeric text) for the short exponents of the model
RECURSIVE IntVal(_)
IntVal(s) ==
    IF Len(s) = 0 THEN 0
    ELSE 10 * IntVal(SubSeq(s, 1, Len(s) - 1)) + DigitVal(Ch(s, Len(s)))

-----------------------------------------------------------------------------
(* to_str, apenas_digitos, normaliza_cnpj *)

\* re.fullmatch(r"\d+(?:\.\d+)?[eE]\+\d+", s)
SciMatch(s) ==
    LET e == FindFrom(s, {"e", "E"}, 1)
        m == SubSeq(s, 1, e - 1)
        x == SubSeq(s, e + 2, Len(s))
        d == FindFrom(m, {"."}, 1)
        mi == IF d = 0 THEN m ELSE SubSeq(m, 1, d - 1)
        mf == IF d = 0 THEN "0" ELSE SubSeq(m, d + 1, Len(m))
    IN  /\ e > 1
        /\ Len(s) >= e + 2
        /\ Ch(s, e + 1) = "+"
        /\ Len(x) > 0 /\ AllDigits(x)
        /\ Len(mi) > 0 /\ AllDigits(mi)
        /\ Len(mf) > 0 /\ AllDigits(mf)

\* str(int(float(s))) for a text SciMatch accepts: the decimal point moved
\* right by the exponent, the digits left behind it cut.  Exact for the
\* mantissas of at most 15 digits the sheets of the model hold.
SciToInt(s) ==
    LET e == FindFrom(s, {"e", "E"}, 1)
        m == SubSeq(s, 1, e - 1)
        x == IntVal(SubSeq(s, e + 2, Len(s)))
        d == FindFrom(m, {"."}, 1)
        mi == IF d = 0 THEN m ELSE SubSeq(m, 1, d - 1)
        mf == IF d = 0 THEN "" ELSE SubSeq(m, d + 1, Len(m))
        moved == IF x >= Len(mf) THEN mi \o mf \o Rep("0", x - Len(mf))
                 ELSE mi \o SubSeq(mf, 1, x)
    IN  IntStr(moved)

to_str(x) ==
    IF x = None THEN ""
    ELSE LET s == Strip(x)
         IN  IF SciMatch(s) THEN SciToInt(s) ELSE s

\* re.sub(r"\D", "", s or "")
RECURSIVE StripNonDigits(_)
StripNonDigits(s) ==
    IF Len(s) = 0 THEN ""
    ELSE (IF Ch(s, 1) \in Digits THEN Ch(s, 1) ELSE "")
             \o StripNonDigits(SubSeq(s, 2, Len(s)))

\* apenas_digitos without its re.sub: the text as given
apenas_digitosMutante(s) == IF s = None THEN "" ELSE s

apenas_digitos(s) == StripNonDigits(IF s = None THEN "" ELSE s)

\* str.zfill(n)
zfill(s, n) == Rep("0", n - Len(s)) \o s

normaliza_cnpj(s) == zfill(apenas_digitos(to_str(s)), 14)

-----------------------------------------------------------------------------
(* cnpj_valido *)

p1 == <<5, 4, 3, 2, 9, 8, 7, 6, 5, 4, 3, 2>>

p2 == <<6>> \o p1

\* sum(int(n) * p for n, p in zip(nums, pesos)): zip stops at the shorter
RECURSIVE SomaPonderada(_, _, _)
SomaPonderada(nums, pesos, i) ==
    IF i > Len(nums) \/ i > Len(pesos) THEN 0
    ELSE DigitVal(Ch(nums, i)) * pesos[i] + SomaPonderada(nums, pesos, i + 1)

\* dv with the remainder 2 also mapped to "0"
dvMutante(nums, pesos) ==
    LET rr == SomaPonderada(nums, pesos, 1) % 11
    IN  IF rr <= 2 THEN "0" ELSE DigitStr(11 - rr)

dv(nums, pesos) ==
    LET rr == SomaPonderada(nums, pesos, 1) % 11
    IN  IF rr < 2 THEN "0" ELSE DigitStr(11 - rr)

\* the guard of line 49 without its repunit test
RejeitaMutante(cnpj) == Len(cnpj) # 14

Rejeita(cnpj) == (Len(cnpj) # 14) \/ (cnpj = Rep(Ch(cnpj, 1), 14))

cnpj_valido(s) ==
    LET cnpj == apenas_digitos(s)
    IN  IF Rejeita(cnpj) THEN FALSE
        ELSE LET d1 == dv(SubSeq(cnpj, 1, 12), p1)
                 d2 == dv(SubSeq(cnpj, 1, 12) \o d1, p2)
             IN  SubSeq(cnpj, 13, 14) = d1 \o d2

-----------------------------------------------------------------------------
(* LookupResult records *)

Campos ==
    <<"CNPJ", "Razao Social", "Nome Fantasia", "CNAE Principal", "Descricao CNAE",
      "CNAE Secundario (1o)", "Descricao CNAE Secundario (1o)", "Porte",
      "Capital Social", "Situacao Cadastral", "Data Situacao Cadastral",
      "Logradouro", "Numero", "Complemento", "Bairro", "Municipio", "UF", "CEP",
      "Endereco (formatado)", "E-mail", "Telefone 1", "Telefone 2">>

CamposSet == {Campos[i] : i \in 1..Len(Campos)}

\* RegistroErro with None, not "", in the fields it has no value for
RegistroErroMutante(cnpj, nome) ==
    [k \in CamposSet |->
        IF k = "CNPJ" THEN cnpj ELSE IF k = "Razao Social" THEN nome ELSE None]

\* the dict literal the 404, retry, other-status and network branches and the
\* loop's invalid branch all build: only the name differs
RegistroErro(cnpj, nome) ==
    [k \in CamposSet |->
        IF k = "CNPJ" THEN cnpj ELSE IF k = "Razao Social" THEN nome ELSE ""]

-----------------------------------------------------------------------------
(* The registry's answers.  A response is a status and a body; the body is  *)
(* named, and Json gives what r.json() makes of it.                         *)

\* bodies that parse to a JSON object
CorposObjeto == {"completo", "parcial", "vazio", "nome_nulo", "mensagem"}

\* a body that parses to a JSON array, [1]
CorposNaoObjeto == {"lista"}

\* a body that is no JSON at all
CorposIlegiveis == {"ilegivel"}

\* the entries of cnaes_secundarios, a list of objects; absent otherwise
Secundarios(corpo) ==
    IF corpo = "completo"
    THEN <<[codigo |-> "6202300", descricao |-> "Desenvolvimento de software"],
           [codigo |-> "6311900", descricao |-> "Tratamento de dados"]>>
    ELSE << >>

\* r.json() of a body of CorposObjeto, without cnaes_secundarios
Json(corpo) ==
    CASE corpo = "completo" ->
           [razao_social |-> "ACME LTDA", nome_fantasia |-> "ACME",
            cnae_fiscal |-> "6201501", cnae_fiscal_descricao |-> "Programas sob encomenda",
            porte |-> "DEMAIS", capital_social |-> "1000",
            descricao_situacao_cadastral |-> "ATIVA",
            situacao_cadastral |-> "2",
            data_situacao_cadastral |-> "2005-11-03",
            logradouro |-> "RUA A", numero |-> "10", complemento |-> "",
            bairro |-> "CENTRO", municipio |-> "SAO PAULO", uf |-> "SP",
            cep |-> "01001000", email |-> "acme@example.com",
            ddd_telefone_1 |-> "1133334444", ddd_telefone_2 |-> ""]
      [] corpo = "parcial" -> [razao_social |-> "GAMA ME", nome_fantasia |-> None,
                               situacao_cadastral |-> "2", municipio |-> "RECIFE"]
      [] corpo = "vazio" -> [nada \in {} |-> ""]
      [] corpo = "nome_nulo" -> [razao_social |-> None]
      [] corpo = "mensagem" -> [message |-> "CNPJ 00.000.000/0000-00 nao encontrado"]

\* dict.get(key, default)
Get(data, key, default) == IF key \in DOMAIN data THEN data[key] ELSE default

\* bool(v) of a text or None
Truthy(v) == v # None /\ v # ""

\* a or b
Or(a, b) == IF Truthy(a) THEN a ELSE b

\* an f-string's rendering of a text or None
Fmt(v) == IF v = None THEN "None" ELSE v

\* sep.join(parts)
RECURSIVE Join(_, _)
Join(sep, parts) ==
    IF Len(parts) = 0 THEN ""
    ELSE IF Len(parts) = 1 THEN parts[1]
    ELSE parts[1] \o sep \o Join(sep, Tail(parts))

\* [p for p in parts if p]
Cheios(parts) == SelectSeq(parts, Truthy)

_endereco_formatado(data) ==
    LET log == Get(data, "logradouro", "")
        num == Get(data, "numero", "")
        comp == Get(data, "complemento", "")
        bairro == Get(data, "bairro", "")
        mun == Get(data, "municipio", "")
        uf == Get(data, "uf", "")
        cep == Get(data, "cep", "")
        cidade_uf == Join(" - ", Cheios(<<mun, uf>>))
        partes == Cheios(<<log, num, comp, bairro>>)
                    \o (IF Truthy(cidade_uf) THEN <<cidade_uf>> ELSE << >>)
                    \o (IF Truthy(cep) THEN <<"CEP " \o Fmt(cep)>> ELSE << >>)
    IN  Join(", ", Cheios(partes))

\* the record of the 200 branch, data being r.json() or {}
Registro200(cnpj, data, secs) ==
    LET tem == Len(secs) > 0
        cnae_sec_1 == IF tem THEN Or(secs[1].codigo, "") ELSE ""
        cnae_sec_1_desc == IF tem THEN Or(secs[1].descricao, "") ELSE ""
        situacao == Or(Get(data, "descricao_situacao_cadastral", ""),
                       Get(data, "situacao_cadastral", ""))
    IN  [k \in CamposSet |->
          CASE k = "CNPJ" -> cnpj
            [] k = "Razao Social" -> Get(data, "razao_social", "")
            [] k = "Nome Fantasia" -> Get(data, "nome_fantasia", "")
            [] k = "CNAE Principal" -> Get(data, "cnae_fiscal", "")
            [] k = "Descricao CNAE" -> Get(data, "cnae_fiscal_descricao", "")
            [] k = "CNAE Secundario (1o)" -> cnae_sec_1
            [] k = "Descricao CNAE Secundario (1o)" -> cnae_sec_1_desc
            [] k = "Porte" -> Get(data, "porte", "")
            [] k = "Capital Social" -> Get(data, "capital_social", "")
            [] k = "Situacao Cadastral" -> situacao
            [] k = "Data Situacao Cadastral" -> Get(data, "data_situacao_cadastral", "")
            [] k = "Logradouro" -> Get(data, "logradouro", "")
            [] k = "Numero" -> Get(data, "numero", "")
            [] k = "Complemento" -> Get(data, "complemento", "")
            [] k = "Bairro" -> Get(data, "bairro", "")
            [] k = "Municipio" -> Get(data, "municipio", "")
            [] k = "UF" -> Get(data, "uf", "")
            [] k = "CEP" -> Get(data, "cep", "")
            [] k = "Endereco (formatado)" -> _endereco_formatado(data)
            [] k = "E-mail" -> Get(data, "email", "")
            [] k = "Telefone 1" -> Get(data, "ddd_telefone_1", "")
            [] k = "Telefone 2" -> Get(data, "ddd_telefone_2", "")]

-----------------------------------------------------------------------------
(* consulta_brasilapi: the branches of one pass of its while loop *)

\* the statuses the registry of the model answers with
Statuses == {200, 400, 404, 429, 500, 502, 503, 504}

\* the bodies it sends with a status other than 200
CorposDeErro == {"mensagem", "vazio", "ilegivel"}

\* the bodies it sends with a 200
CorposDe200 == {"completo", "parcial", "vazio", "nome_nulo", "lista", "ilegivel"}

\* str(r.status_code)
StatusStr(st) ==
    CASE st = 200 -> "200" [] st = 400 -> "400" [] st = 404 -> "404"
      [] st = 429 -> "429" [] st = 500 -> "500" [] st = 502 -> "502"
      [] st = 503 -> "503" [] st = 504 -> "504"

\* no response: before the first request, and when requests.get raised
SemResposta == [status |-> 0, corpo |-> ""]

\* every client or server error but 404 taken for retryable
RetentavelMutante(st) == st >= 400 /\ st # 404

\* r.status_code in (429, 500, 502, 503, 504)
Retentavel(st) == st \in {429, 500, 502, 503, 504}

\* the budget test off by one
EsgotadoMutante(t) == t > MAX_RETRIES + 1

\* tentativas > MAX_RETRIES
Esgotado(t) == t > MAX_RETRIES

\* 2 ** n
RECURSIVE Pow2(_)
Pow2(n) == IF n <= 0 THEN 1 ELSE 2 * Pow2(n - 1)

\* the exponent off by one: BACKOFF_BASE * (2 ** tentativas)
BackoffMutante(t) == BACKOFF_BASE * Pow2(t)

\* BACKOFF_BASE * (2 ** (tentativas - 1))
Backoff(t) == BACKOFF_BASE * Pow2(t - 1)

\* try: r.json().get("message", default) except Exception: fallback
Mensagem(corpo, default, fallback) ==
    IF corpo \in CorposObjeto THEN Get(Json(corpo), "message", default) ELSE fallback

\* str(e) of the RequestException raised
TextoExcecao(resp) ==
    IF resp = SemResposta THEN "HTTPSConnectionPool: Read timed out."
    ELSE "Expecting value: line 1 column 1 (char 0)"

SemExcecao == [tipo |-> "", em |-> ""]

SemRegistro == [k \in {} |-> ""]

\* the lookup returns `registro`
Retorna(registro) ==
    /\ res' = registro
    /\ pc' = "returned"
    /\ UNCHANGED <<tentativas, hist, sleeps, exc>>

\* an exception leaves the script
Levanta(tipo, em) ==
    /\ exc' = [tipo |-> tipo, em |-> em]
    /\ pc' = "aborted"

\* what is left alone by every pass of the lookup's loop
FrameConsulta ==
    UNCHANGED <<planilha, df, lista_unicos, pos, resultados_map, ok, inval, err,
                df_final, chamadas, pausas, entrada, saida>>

\* Falha with transport failures left out of the count
FalhaMutante(tipo, registro) ==
    /\ tentativas' = IF tipo = "rede" THEN tentativas ELSE tentativas + 1
    /\ hist' = Append(hist, tipo)
    /\ IF Esgotado(tentativas')
       THEN /\ res' = registro
            /\ pc' = "returned"
            /\ UNCHANGED sleeps
       ELSE /\ sleeps' = Append(sleeps, Backoff(tentativas'))
            /\ pc' = "request"
            /\ UNCHANGED res
    /\ UNCHANGED exc

\* Falha giving up with a record of the kind of the lookup's first failure
FalhaPrimeiraMutante(tipo, registro) ==
    /\ tentativas' = tentativas + 1
    /\ hist' = Append(hist, tipo)
    /\ IF Esgotado(tentativas')
       THEN /\ res' = IF hist'[1] = tipo THEN registro
                      ELSE RegistroErro(registro["CNPJ"],
                               IF hist'[1] = "rede" THEN "Erro de rede: "
                               ELSE "Erro apos retries: ")
            /\ pc' = "returned"
            /\ UNCHANGED sleeps
       ELSE /\ sleeps' = Append(sleeps, Backoff(tentativas'))
            /\ pc' = "request"
            /\ UNCHANGED res
    /\ UNCHANGED exc

\* a retryable failure of kind `tipo`: count it, then give up with `registro`
\* or sleep and go round again
Falha(tipo, registro) ==
    /\ tentativas' = tentativas + 1
    /\ hist' = Append(hist, tipo)
    /\ IF Esgotado(tentativas')
       THEN /\ res' = registro
            /\ pc' = "returned"
            /\ UNCHANGED sleeps
       ELSE /\ sleeps' = Append(sleeps, Backoff(tentativas'))
            /\ pc' = "request"
            /\ UNCHANGED res
    /\ UNCHANGED exc

\* status 200, a body that parses to an object (or to {}): lines 91-137
Resposta200 ==
    /\ pc = "request"
    /\ \E corpo \in CorposDe200 \cap CorposObjeto :
         /\ r' = [status |-> 200, corpo |-> corpo]
         /\ Retorna(Registro200(lista_unicos[pos], Json(corpo), Secundarios(corpo)))
    /\ nreq' = nreq + 1
    /\ FrameConsulta

\* status 200, a body that parses to a list: data.get raises AttributeError,
\* which no except clause of the function catches (line 95)
Resposta200NaoObjeto ==
    /\ pc = "request"
    /\ \E corpo \in CorposDe200 \cap CorposNaoObjeto :
         r' = [status |-> 200, corpo |-> corpo]
    /\ nreq' = nreq + 1
    /\ Levanta("AttributeError", "consulta_brasilapi")
    /\ UNCHANGED <<tentativas, hist, sleeps, res>>
    /\ FrameConsulta

\* status 200, a body that is no JSON: r.json() raises (line 92).  With
\* requests >= 2.27 the error is a RequestException and the except clause of
\* line 212 takes it for a transport failure ...
Resposta200IlegivelCapturada ==
    /\ pc = "request"
    /\ \E corpo \in CorposDe200 \cap CorposIlegiveis :
         /\ r' = [status |-> 200, corpo |-> corpo]
         /\ Falha("rede", RegistroErro(lista_unicos[pos],
                                        "Erro de rede: " \o TextoExcecao(r')))
    /\ nreq' = nreq + 1
    /\ FrameConsulta

\* ... and with an older requests it is a plain ValueError, which escapes
Resposta200IlegivelEscapa ==
    /\ pc = "request"
    /\ \E corpo \in CorposDe200 \cap CorposIlegiveis :
         r' = [status |-> 200, corpo |-> corpo]
    /\ nreq' = nreq + 1
    /\ Levanta("ValueError", "consulta_brasilapi")
    /\ UNCHANGED <<tentativas, hist, sleeps, res>>
    /\ FrameConsulta

\* the other statuses: lines 139-210
RespostaDeErro ==
    /\ pc = "request"
    /\ \E st \in Statuses \ {200}, corpo \in CorposDeErro :
         /\ r' = [status |-> st, corpo |-> corpo]
         /\ IF st = 404
            THEN Retorna(RegistroErro(lista_unicos[pos],
                     "Nao encontrado: "
                        \o Fmt(Mensagem(corpo, "Nao encontrado", "Nao encontrado"))))
            ELSE IF Retentavel(st)
            THEN Falha("http", RegistroErro(lista_unicos[pos],
                     "Erro apos retries: "
                        \o Fmt(Mensagem(corpo, "", "HTTP " \o StatusStr(st)))))
            ELSE Retorna(RegistroErro(lista_unicos[pos],
                     "Erro: " \o Fmt(Mensagem(corpo, "", "HTTP " \o StatusStr(st)))))
    /\ nreq' = nreq + 1
    /\ FrameConsulta

\* requests.get raises a RequestException: lines 212-232
FalhaDeTransporte ==
    /\ pc = "request"
    /\ r' = SemResposta
    /\ Falha("rede", RegistroErro(lista_unicos[pos],
                                   "Erro de rede: " \o TextoExcecao(SemResposta)))
    /\ nreq' = nreq + 1
    /\ FrameConsulta

-----------------------------------------------------------------------------
(* The pipeline: pre-processing, the lookup loop, the merge *)

\* a < b for Python strings of digits: character by character, a proper
\* prefix first
RECURSIVE StrLess(_, _)
StrLess(a, b) ==
    IF Len(b) = 0 THEN FALSE
    ELSE IF Len(a) = 0 THEN TRUE
    ELSE IF Ch(a, 1) = Ch(b, 1) THEN StrLess(SubSeq(a, 2, Len(a)), SubSeq(b, 2, Len(b)))
    ELSE DigitVal(Ch(a, 1)) < DigitVal(Ch(b, 1))

\* sorted(S) of a set of strings
RECURSIVE SortedSet(_)
SortedSet(S) ==
    IF S = {} THEN << >>
    ELSE LET m == CHOOSE x \in S : \A y \in S \ {x} : StrLess(x, y)
         IN  <<m>> \o SortedSet(S \ {m})

\* sorted(lista): insertion of each element in turn
RECURSIVE SortedList(_)
SortedList(lista) ==
    IF Len(lista) = 0 THEN << >>
    ELSE LET rest == SortedList(Tail(lista))
             x == Head(lista)
             before == SelectSeq(rest, LAMBDA y : StrLess(y, x))
             after == SelectSeq(rest, LAMBDA y : ~StrLess(y, x))
         IN  before \o <<x>> \o after

\* the identifiers sorted but not deduplicated
UnicosMutante(lista_todos) == SortedList(lista_todos)

\* sorted(set(lista_todos))
Unicos(lista_todos) == SortedSet({lista_todos[i] : i \in 1..Len(lista_todos)})

\* the records of the converters of read_excel: to_str of every cell
LeColuna(cells) == [i \in 1..Len(cells) |-> to_str(cells[i])]

\* the flag taken from the cell as read, not from the normalized identifier
LinhaMutante(cell) ==
    (COLUNA_CNPJ :> normaliza_cnpj(cell)) @@ ("_CNPJ_VALIDO" :> cnpj_valido(cell))

\* lines 266-267 for one row
Linha(cell) ==
    LET cnpj == normaliza_cnpj(cell)
    IN  (COLUNA_CNPJ :> cnpj) @@ ("_CNPJ_VALIDO" :> cnpj_valido(cnpj))

\* the columns a LookupResult adds to a row
CamposDados == CamposSet \ {"CNPJ"}

\* cols_saida, as a set
cols_saida == {COLUNA_CNPJ, "_CNPJ_VALIDO"} \cup CamposDados

\* one left row joined with one right row (the key column is shared), or
\* with None in every right column when there is none
Junta(linha, registro) ==
    [k \in cols_saida |->
        IF k \in DOMAIN linha THEN linha[k]
        ELSE IF k \in DOMAIN registro THEN registro[k]
        ELSE None]

\* DataFrame.merge(right, how="left", left_on="CNPJ", right_on="CNPJ"): every
\* left row in order, once per right row of the same key
RECURSIVE LeftMerge(_, _)
LeftMerge(left, right) ==
    IF Len(left) = 0 THEN << >>
    ELSE LET linha == Head(left)
             iguais == SelectSeq(right, LAMBDA reg : reg["CNPJ"] = linha[COLUNA_CNPJ])
             saem == IF Len(iguais) = 0 THEN <<Junta(linha, SemRegistro)>>
                     ELSE [j \in 1..Len(iguais) |-> Junta(linha, iguais[j])]
         IN  saem \o LeftMerge(Tail(left), right)

-----------------------------------------------------------------------------
(* The run *)

\* the cells a sheet of the model may hold in its CNPJ column
Celulas ==
    {" 11.222.333/0001-81", "1.1222333000181e+13", "191", None, "11222333000180"}

\* the sheets: every column of at most MaxRows cells
Planilhas == UNION {[1..n -> Celulas] : n \in 0..MaxRows}

Init ==
    /\ planilha \in Planilhas
    /\ df = << >>
    /\ lista_unicos = << >>
    /\ pos = 0
    /\ resultados_map = SemRegistro
    /\ ok = 0 /\ inval = 0 /\ err = 0
    /\ pc = "read"
    /\ tentativas = 0
    /\ r = SemResposta
    /\ res = SemRegistro
    /\ exc = SemExcecao
    /\ df_final = << >>
    /\ hist = << >>
    /\ nreq = 0
    /\ sleeps = << >>
    /\ chamadas = SemRegistro
    /\ pausas = 0
    /\ entrada = ""
    /\ saida = ""

\* pd.read_excel(..., converters={COLUNA_CNPJ: to_str}): lines 253-258
LeExcel ==
    /\ pc = "read"
    /\ df' = [i \in 1..Len(planilha) |-> (COLUNA_CNPJ :> LeColuna(planilha)[i])]
    /\ pc' = "preprocess"
    /\ UNCHANGED <<planilha, lista_unicos, pos, resultados_map, ok, inval, err,
                   tentativas, r, res, exc, df_final, hist, nreq, sleeps,
                   chamadas, pausas, entrada, saida>>

\* lines 266-275
PreProcessamento ==
    /\ pc = "preprocess"
    /\ df' = [i \in 1..Len(df) |-> Linha(df[i][COLUNA_CNPJ])]
    /\ lista_unicos' = Unicos([i \in 1..Len(df) |-> df'[i][COLUNA_CNPJ]])
    /\ resultados_map' = SemRegistro
    /\ ok' = 0 /\ inval' = 0 /\ err' = 0
    /\ pos' = 1
    /\ pc' = "loop"
    /\ UNCHANGED <<planilha, tentativas, r, res, exc, df_final, hist, nreq,
                   sleeps, chamadas, pausas, entrada, saida>>

\* the loop's branch for an identifier that fails validation: lines 278-297
IdentificadorInvalido ==
    /\ pc = "loop"
    /\ pos <= Len(lista_unicos)
    /\ ~cnpj_valido(lista_unicos[pos])
    /\ inval' = inval + 1
    /\ resultados_map' =
         (lista_unicos[pos] :> RegistroErro(lista_unicos[pos], "CNPJ invalido (DV)"))
            @@ resultados_map
    /\ pos' = pos + 1
    /\ UNCHANGED <<planilha, df, lista_unicos, ok, err, pc, tentativas, r, res,
                   exc, df_final, hist, nreq, sleeps, chamadas, pausas,
                   entrada, saida>>

\* line 299: consulta_brasilapi is entered, tentativas = 0 (line 87)
ChamaConsulta ==
    /\ pc = "loop"
    /\ pos <= Len(lista_unicos)
    /\ cnpj_valido(lista_unicos[pos])
    /\ tentativas' = 0
    /\ r' = SemResposta
    /\ hist' = << >>
    /\ nreq' = 0
    /\ sleeps' = << >>
    /\ chamadas' = (lista_unicos[pos] :> (Get(chamadas, lista_unicos[pos], 0) + 1))
                      @@ chamadas
    /\ pc' = "request"
    /\ UNCHANGED <<planilha, df, lista_unicos, pos, resultados_map, ok, inval,
                   err, res, exc, df_final, pausas, entrada, saida>>

\* the test of line 302 with "Nao encontrado" forgotten
ContaComoErroMutante(nome) == StartsWith(nome, "Erro")

\* res["Razao Social"].startswith(("Erro", "Nao encontrado")): line 302
ContaComoErro(nome) == StartsWith(nome, "Erro") \/ StartsWith(nome, "Nao encontrado")

\* lines 300-307: the record is stored, then tallied by its name; a name
\* that is None has no startswith, and the AttributeError ends the run
GuardaResultado ==
    /\ pc = "returned"
    /\ resultados_map' = (lista_unicos[pos] :> res) @@ resultados_map
    /\ IF res["Razao Social"] = None
       THEN /\ Levanta("AttributeError", "loop")
            /\ UNCHANGED <<ok, err, pausas, pos, tentativas, r, hist, nreq, sleeps>>
       ELSE /\ IF ContaComoErro(res["Razao Social"])
               THEN err' = err + 1 /\ UNCHANGED ok
               ELSE ok' = ok + 1 /\ UNCHANGED err
            /\ pausas' = pausas + SLEEP_ENTRE_CHAMADAS
            /\ pos' = pos + 1
            /\ pc' = "loop"
            /\ tentativas' = 0
            /\ r' = SemResposta
            /\ hist' = << >>
            /\ nreq' = 0
            /\ sleeps' = << >>
            /\ UNCHANGED exc
    /\ UNCHANGED <<planilha, df, lista_unicos, inval, res, df_final, chamadas,
                   entrada, saida>>

\* lines 310-325, the loop over: the records in lista_unicos order, the left
\* merge, the output columns.  With no identifier at all the frame of records
\* has no CNPJ column and the merge raises KeyError.
Merge ==
    /\ pc = "loop"
    /\ pos > Len(lista_unicos)
    /\ LET df_result == [i \in 1..Len(lista_unicos) |-> resultados_map[lista_unicos[i]]]
       IN  IF Len(df_result) = 0
           THEN Levanta("KeyError", "merge") /\ UNCHANGED df_final
           ELSE /\ df_final' = LeftMerge(df, df_result)
                /\ pc' = "done"
                /\ UNCHANGED exc
    /\ UNCHANGED <<planilha, df, lista_unicos, pos, resultados_map, ok, inval,
                   err, tentativas, r, res, hist, nreq, sleeps, chamadas,
                   pausas, entrada, saida>>

Next ==
    \/ LeExcel
    \/ PreProcessamento
    \/ IdentificadorInvalido
    \/ ChamaConsulta
    \/ Resposta200
    \/ Resposta200NaoObjeto
    \/ Resposta200IlegivelCapturada
    \/ Resposta200IlegivelEscapa
    \/ RespostaDeErro
    \/ FalhaDeTransporte
    \/ GuardaResultado
    \/ Merge

Spec == Init /\ [][Next]_vars

-----------------------------------------------------------------------------
(* cnpj_valido on its own: every input of EntradasValidador is given to it *)

\* the first twelve digits of the inputs
Bases ==
    {"112223330001", "000000000001", "000000107919", "000000123757"}
        \cup {Rep(d, 12) : d \in Digits}

\* texts that are not fourteen digits: identifiers written with separators
\* or blanks, and runs of digits too short or too long
EntradasLivres ==
    {"11.222.333/0001-81", "11.222.333/0001-80", "00.000.000/0001-91",
     " 11222333000181", "1.1222333000181", "11.222.333/0001-8", "191", "",
     "1122233300018", "112223330001811", "011222333000181"}

\* each base with each of the hundred pairs of final digits, and the texts
\* of EntradasLivres
EntradasValidador ==
    {b \o d13 \o d14 : b \in Bases, d13 \in Digits, d14 \in Digits}
        \cup EntradasLivres

InitValido ==
    /\ entrada \in EntradasValidador
    /\ saida = ""
    /\ pc = "validator"
    /\ planilha = << >>
    /\ df = << >>
    /\ lista_unicos = << >>
    /\ pos = 0
    /\ resultados_map = SemRegistro
    /\ ok = 0 /\ inval = 0 /\ err = 0
    /\ tentativas = 0
    /\ r = SemResposta
    /\ res = SemRegistro
    /\ exc = SemExcecao
    /\ df_final = << >>
    /\ hist = << >>
    /\ nreq = 0
    /\ sleeps = << >>
    /\ chamadas = SemRegistro
    /\ pausas = 0

\* saida is str(cnpj_valido(entrada))
AplicaValido ==
    /\ pc = "validator"
    /\ saida = ""
    /\ saida' = IF cnpj_valido(entrada) THEN "True" ELSE "False"
    /\ UNCHANGED <<planilha, df, lista_unicos, pos, resultados_map, ok, inval,
                   err, pc, tentativas, r, res, exc, df_final, hist, nreq,
                   sleeps, chamadas, pausas, entrada>>

NextValido == AplicaValido

SpecValido == InitValido /\ [][NextValido]_vars

-----------------------------------------------------------------------------
(* Properties *)

Nome(registro) == registro["Razao Social"]

\* the failed attempts were n retryable HTTP statuses and nothing else
SoHttp(n) == hist = [i \in 1..n |-> "http"]

C2_OneLookupPerIdentifier ==
    \A c \in DOMAIN chamadas : chamadas[c] <= 1

\* two rows share a valid identifier and the run has ended with one call
C2_Witness ==
    /\ pc = "done"
    /\ Len(df) = 2
    /\ df[1][COLUNA_CNPJ] = df[2][COLUNA_CNPJ]
    /\ df[1][COLUNA_CNPJ] \in DOMAIN chamadas
    /\ chamadas[df[1][COLUNA_CNPJ]] = 1

\* C3: a lookup answered by retryable statuses MAX_RETRIES times and then by
\* a 200 (whose body is a JSON object) returns the record built from that
\* body; the "Erro apos retries" record is returned only by the
\* (MAX_RETRIES + 1)-th failure, and MAX_RETRIES + 1 retryable statuses in a
\* row do return it.
C3_RetryThenSuccess ==
    /\ (pc = "returned" /\ StartsWith(Nome(res), "Erro apos retries"))
          => Len(hist) = MAX_RETRIES + 1
    /\ (pc = "returned" /\ SoHttp(MAX_RETRIES) /\ r.status = 200
            /\ r.corpo \in CorposObjeto)
          => /\ res = Registro200(lista_unicos[pos], Json(r.corpo), Secundarios(r.corpo))
             /\ Nome(res) = Get(Json(r.corpo), "razao_social", "")
             /\ ~StartsWith(Nome(res), "Erro")
    /\ SoHttp(MAX_RETRIES + 1)
          => pc = "returned" /\ StartsWith(Nome(res), "Erro apos retries")

\* MAX_RETRIES retryable statuses, then a 200 and its record
C3_Witness ==
    /\ pc = "returned"
    /\ SoHttp(MAX_RETRIES)
    /\ r = [status |-> 200, corpo |-> "completo"]
    /\ Nome(res) = "ACME LTDA"

\* C4: a 404, and a status that is none of 200, 404, 429, 500, 502, 503, 504,
\* ends the lookup on that very response: no backoff sleep, no further
\* request, and a name that starts with "Nao encontrado: " for 404 and with
\* "Erro: " otherwise, also after retried attempts.
C4_TerminalStatuses ==
    [][ /\ (pc = "request" /\ nreq' = nreq + 1
               /\ r'.status \notin {0, 200, 429, 500, 502, 503, 504})
           => /\ pc' = "returned"
              /\ sleeps' = sleeps
              /\ IF r'.status = 404
                 THEN StartsWith(Nome(res'), "Nao encontrado: ")
                 ELSE StartsWith(Nome(res'), "Erro: ")
        /\ (pc = "returned") => (pc' # "request" /\ nreq' \in {0, nreq})
      ]_vars

\* a 400 that ends a lookup whose first attempts were retried
C4_Witness ==
    /\ pc = "returned"
    /\ r.status = 400
    /\ Len(hist) = 2
    /\ Len(sleeps) = 2
    /\ nreq = 3
    /\ StartsWith(Nome(res), "Erro: ")

\* C5: whatever a request brings, consulta_brasilapi returns a record: no
\* exception leaves it.
C5_NoExceptionEscapes ==
    ~(pc = "aborted" /\ exc.em = "consulta_brasilapi")

\* C6: once the loop has started no outcome of the registry ends the run
\* before the merge: the run is never stopped by an exception raised in the
\* lookup or in the loop around it.
C6_NoOutcomeAbortsRun ==
    pc = "aborted" => exc.em \notin {"consulta_brasilapi", "loop"}

\* C7: retryable statuses and transport failures count in the one counter,
\* which starts at 0 in every lookup, so a lookup issues at most
\* MAX_RETRIES + 1 requests and sleeps at most MAX_RETRIES times.
C7_SharedRetryBudget ==
    /\ tentativas = Len(hist)
    /\ nreq <= MAX_RETRIES + 1
    /\ Len(sleeps) <= MAX_RETRIES
    /\ (pc = "request" /\ nreq = 0) => tentativas = 0
    /\ nreq = MAX_RETRIES + 1 => pc # "request"

\* a lookup that spent its budget on failures of both kinds
C7_Witness ==
    /\ pc = "returned"
    /\ nreq = MAX_RETRIES + 1
    /\ Len(sleeps) = MAX_RETRIES
    /\ tentativas = MAX_RETRIES + 1
    /\ \E i, j \in 1..Len(hist) : hist[i] = "http" /\ hist[j] = "rede"

\* C8: from pre-processing on every row's flag is
\* cnpj_valido(normaliza_cnpj(cell)) of the sheet's cell, and so is the flag
\* of every output row, whatever the lookups returned.
C8_FlagIndependentOfLookups ==
    /\ pc \in {"loop", "request", "returned", "aborted", "done"}
          => /\ Len(df) = Len(planilha)
             /\ \A i \in 1..Len(planilha) :
                   df[i]["_CNPJ_VALIDO"] = cnpj_valido(normaliza_cnpj(planilha[i]))
    /\ pc = "done"
          => \A i \in 1..Len(df_final) :
                /\ i <= Len(planilha)
                /\ df_final[i]["_CNPJ_VALIDO"] = cnpj_valido(normaliza_cnpj(planilha[i]))

\* a valid identifier padded from a short cell, its lookup failed, its flag true
C8_Witness ==
    /\ pc = "done"
    /\ \E i \in 1..Len(planilha) :
          /\ planilha[i] = "191"
          /\ df_final[i]["_CNPJ_VALIDO"] = TRUE
          /\ StartsWith(df_final[i]["Razao Social"], "Erro de rede")

Repunit(s) == Len(s) = 14 /\ s = Rep(Ch(s, 1), 14)

\* C9: cnpj_valido is false for each of the ten strings of fourteen equal
\* digits, the one whose last two digits are its check digits included.
C9_RepunitsRejected ==
    (saida # "" /\ Repunit(entrada)) => saida = "False"

\* the repunit whose check digits agree with its last two digits
C9_Witness ==
    /\ entrada = "00000000000000"
    /\ dv(SubSeq(entrada, 1, 12), p1) = "0"
    /\ dv(SubSeq(entrada, 1, 13), p2) = "0"
    /\ saida = "False"

\* the claim's dv: a number
DvNumero(d, pesos, n) ==
    LET soma[i \in 0..n] ==
            IF i = 0 THEN 0 ELSE soma[i - 1] + DigitVal(Ch(d, i)) * pesos[i]
        resto == soma[n] % 11
    IN  IF resto < 2 THEN 0 ELSE 11 - resto

\* C10: for fourteen digits that are not all equal, cnpj_valido is true
\* exactly when the 13th digit is dv of the first twelve under
\* 5,4,3,2,9,8,7,6,5,4,3,2 and the 14th is dv of the first thirteen under
\* 6,5,4,3,2,9,8,7,6,5,4,3,2; 11222333000181 is valid, 11222333000180 is not.
C10_CheckDigits ==
    /\ (saida # "" /\ Len(entrada) = 14 /\ AllDigits(entrada) /\ ~Repunit(entrada))
          => (saida = "True"
                <=> /\ DigitVal(Ch(entrada, 13))
                         = DvNumero(entrada, <<5, 4, 3, 2, 9, 8, 7, 6, 5, 4, 3, 2>>, 12)
                    /\ DigitVal(Ch(entrada, 14))
                         = DvNumero(entrada, <<6, 5, 4, 3, 2, 9, 8, 7, 6, 5, 4, 3, 2>>, 13))
    /\ (saida # "" /\ entrada = "11222333000181") => saida = "True"
    /\ (saida # "" /\ entrada = "11222333000180") => saida = "False"

\* the published valid identifier, accepted
C10_Witness ==
    /\ entrada = "11222333000181"
    /\ saida = "True"

\* C11 as stated: cnpj_valido is false for every text whose length is not 14,
\* a valid identifier written with its separators included.
C11_LengthNot14Rejected ==
    (saida # "" /\ Len(entrada) # 14) => saida = "False"

\* C11, amended: the length that counts is that of the digits left once the
\* other characters are removed.  cnpj_valido is false for every text whose
\* digits do not number 14, and a text whose digits are a valid identifier
\* is accepted with its separators: "11.222.333/0001-81" is valid.
C11_DigitCountNot14Rejected ==
    /\ (saida # "" /\ Len(apenas_digitos(entrada)) # 14) => saida = "False"
    /\ (saida # "" /\ Len(entrada) # 14 /\ Len(apenas_digitos(entrada)) = 14)
          => (saida = "True" <=> cnpj_valido(StripNonDigits(entrada)))
    /\ (saida # "" /\ entrada = "11.222.333/0001-81") => saida = "True"

\* a text with separators around thirteen digits, rejected
C11_Witness ==
    /\ entrada = "11.222.333/0001-8"
    /\ Len(entrada) # 14
    /\ saida = "False"

\* C12: a 200 whose body cannot be parsed as JSON is handled as an empty
\* object: that very response ends the lookup with a record whose fields
\* other than the identifier are all "", it is not counted as a failed
\* attempt, and no backoff sleep follows it.
C12_UnparseableBodyAsEmpty ==
    (r.status = 200 /\ r.corpo \in CorposIlegiveis)
        => /\ pc = "returned"
           /\ res = RegistroErro(lista_unicos[pos], "")
           /\ tentativas = nreq - 1
           /\ Len(sleeps) = nreq - 1

\* C13: the record a lookup returns on a status other than 200 and 404 (on
\* the retryable status that exhausts the budget, or on any other status)
\* is named by its prefix followed by the body's message field when the
\* body has one, and by the HTTP status when it has none, a JSON object
\* without a message key included.
C13_MessageOrStatus ==
    (pc = "returned" /\ r.status \notin {0, 200, 404})
        => LET prefixo == IF r.status \in {429, 500, 502, 503, 504}
                          THEN "Erro apos retries: " ELSE "Erro: "
               temMensagem == /\ r.corpo \in CorposObjeto
                              /\ "message" \in DOMAIN Json(r.corpo)
           IN  Nome(res) = prefixo \o (IF temMensagem THEN Json(r.corpo).message
                                       ELSE "HTTP " \o StatusStr(r.status))

\* the distinct identifiers of the data frame that pass, or fail, validation
IdsValidos == {df[i][COLUNA_CNPJ] : i \in {j \in 1..Len(df) : df[j]["_CNPJ_VALIDO"]}}

IdsInvalidos == {df[i][COLUNA_CNPJ] : i \in {j \in 1..Len(df) : ~df[j]["_CNPJ_VALIDO"]}}

\* C14: the loop's step for an identifier that fails validation stores the
\* record named "CNPJ invalido (DV)" whose other data fields are all "",
\* and issues no request and takes no throttle or backoff sleep; no lookup
\* is ever entered for such an identifier, the throttle has slept once per
\* valid identifier stored, and when the run is over consulta_brasilapi has
\* been entered once for each distinct valid identifier and for nothing else.
C14_InvalidNeverRequested ==
    /\ [](pc \in {"loop", "request", "returned", "aborted", "done"}
            => /\ \A c \in DOMAIN resultados_map \cap IdsInvalidos :
                     /\ resultados_map[c]["CNPJ"] = c
                     /\ resultados_map[c]["Razao Social"] = "CNPJ invalido (DV)"
                     /\ \A k \in CamposDados \ {"Razao Social"} :
                           resultados_map[c][k] = ""
               /\ DOMAIN chamadas \cap IdsInvalidos = {}
               /\ pc # "aborted"
                     => pausas = SLEEP_ENTRE_CHAMADAS
                                   * Cardinality(DOMAIN resultados_map \cap IdsValidos)
               /\ pc = "done"
                     => /\ DOMAIN chamadas = IdsValidos
                        /\ \A c \in IdsValidos : chamadas[c] = 1)
    /\ [][ (pc = "loop" /\ pos <= Len(lista_unicos)
               /\ lista_unicos[pos] \in IdsInvalidos)
            => /\ pc' = "loop"
               /\ DOMAIN resultados_map' = DOMAIN resultados_map \cup {lista_unicos[pos]}
               /\ UNCHANGED <<nreq, sleeps, pausas, chamadas, r, tentativas>>
          ]_vars

\* a run over one valid and one invalid identifier: one lookup, one throttle
\* sleep, and the invalid identifier's record
C14_Witness ==
    /\ pc = "done"
    /\ Cardinality(IdsValidos) = 1
    /\ IdsInvalidos = {"11222333000180"}
    /\ resultados_map["11222333000180"]["Razao Social"] = "CNPJ invalido (DV)"
    /\ DOMAIN chamadas = IdsValidos
    /\ pausas = SLEEP_ENTRE_CHAMADAS

\* C15: every step of a run keeps the keys resultados_map has and the record
\* stored under each of them, the merge included, so a key is written once;
\* the keys are identifiers of the data frame, and when the run is over
\* they are exactly its distinct normalized identifiers.
C15_MapWrittenOnce ==
    /\ [][ \A c \in DOMAIN resultados_map :
              /\ c \in DOMAIN resultados_map'
              /\ resultados_map'[c] = resultados_map[c] ]_vars
    /\ [](DOMAIN resultados_map \subseteq {df[i][COLUNA_CNPJ] : i \in 1..Len(df)})
    /\ [](pc = "done"
            => DOMAIN resultados_map
                  = {normaliza_cnpj(planilha[i]) : i \in 1..Len(planilha)})

\* the run is over, two identifiers were stored, the first of them by a lookup
C15_Witness ==
    /\ pc = "done"
    /\ Len(lista_unicos) = 2
    /\ Cardinality(DOMAIN resultados_map) = 2
    /\ lista_unicos[1] \in DOMAIN chamadas

\* the rows of the output whose name starts with "Erro" or "Nao encontrado"
LinhasComErro ==
    {i \in 1..Len(df_final) :
        \/ StartsWith(df_final[i]["Razao Social"], "Erro")
        \/ StartsWith(df_final[i]["Razao Social"], "Nao encontrado")}

\* the rows of the output whose identifier fails validation
LinhasInvalidas == {i \in 1..Len(df_final) : ~df_final[i]["_CNPJ_VALIDO"]}

\* the identifiers stored with a name that starts with "Erro" or "Nao encontrado"
IdsComErro ==
    {c \in DOMAIN resultados_map :
        \/ StartsWith(resultados_map[c]["Razao Social"], "Erro")
        \/ StartsWith(resultados_map[c]["Razao Social"], "Nao encontrado")}

\* C16 as stated: when the run is over the three counters count rows: inval
\* the rows whose identifier fails validation, err the rows whose name
\* starts with "Erro" or "Nao encontrado", ok the other rows, also when
\* rows share an identifier.
C16_CountersCountRows ==
    pc = "done"
        => /\ inval = Cardinality(LinhasInvalidas)
           /\ err = Cardinality(LinhasComErro)
           /\ ok = Len(df_final) - Cardinality(LinhasInvalidas)
                                 - Cardinality(LinhasComErro)

\* C16, amended: when the run is over the three counters count distinct
\* identifiers: inval those that fail validation, err those stored with a
\* name that starts with "Erro" or "Nao encontrado", ok the other ones;
\* rows that share an identifier count once.
C16_CountersCountIdentifiers ==
    pc = "done"
        => /\ inval = Cardinality(IdsInvalidos)
           /\ err = Cardinality(IdsComErro)
           /\ ok = Cardinality(DOMAIN resultados_map)
                      - Cardinality(IdsInvalidos) - Cardinality(IdsComErro)

\* two rows share an identifier that was not found: it counts once
C16_Witness ==
    /\ pc = "done"
    /\ Len(df) = 2
    /\ df[1][COLUNA_CNPJ] = df[2][COLUNA_CNPJ]
    /\ StartsWith(df_final[1]["Razao Social"], "Nao encontrado")
    /\ err = 1 /\ ok = 0 /\ inval = 0

\* C17: within one lookup the first backoff sleep lasts BACKOFF_BASE and each
\* later one twice the one before, so the k-th lasts BACKOFF_BASE * 2^(k-1);
\* every failure but the (MAX_RETRIES + 1)-th has been followed by a sleep
\* before the request is issued again, a step that sleeps is a step that
\* goes back to the request, and the (MAX_RETRIES + 1)-th failure returns
\* the error record without a sleep.
C17_BackoffSchedule ==
    /\ [](/\ Len(sleeps) > 0 => sleeps[1] = BACKOFF_BASE
           /\ \A k \in 1..(Len(sleeps) - 1) : sleeps[k + 1] = 2 * sleeps[k]
           /\ IF Len(hist) = MAX_RETRIES + 1
              THEN /\ Len(sleeps) = MAX_RETRIES
                   /\ pc = "returned"
                   /\ StartsWith(Nome(res), "Erro")
              ELSE Len(sleeps) = Len(hist))
    /\ [][ /\ Len(sleeps') > Len(sleeps)
               => /\ pc = "request" /\ pc' = "request"
                  /\ Len(hist') = Len(hist) + 1
                  /\ Len(sleeps') = Len(sleeps) + 1
           /\ (pc = "request" /\ pc' = "request") => Len(sleeps') = Len(sleeps) + 1
         ]_vars

\* a lookup that failed MAX_RETRIES + 1 times: three sleeps, each twice the
\* one before, none after the last failure
C17_Witness ==
    /\ pc = "returned"
    /\ Len(hist) = MAX_RETRIES + 1
    /\ sleeps = <<BACKOFF_BASE, 2 * BACKOFF_BASE, 4 * BACKOFF_BASE>>

\* the provider's key behind each field that is copied from the body as it is
ChaveDoCampo ==
    [k \in {"Razao Social", "Nome Fantasia", "CNAE Principal", "Descricao CNAE",
            "Porte", "Capital Social", "Data Situacao Cadastral", "Logradouro",
            "Numero", "Complemento", "Bairro", "Municipio", "UF", "CEP",
            "E-mail", "Telefone 1", "Telefone 2"} |->
        CASE k = "Razao Social" -> "razao_social"
          [] k = "Nome Fantasia" -> "nome_fantasia"
          [] k = "CNAE Principal" -> "cnae_fiscal"
          [] k = "Descricao CNAE" -> "cnae_fiscal_descricao"
          [] k = "Porte" -> "porte"
          [] k = "Capital Social" -> "capital_social"
          [] k = "Data Situacao Cadastral" -> "data_situacao_cadastral"
          [] k = "Logradouro" -> "logradouro"
          [] k = "Numero" -> "numero"
          [] k = "Complemento" -> "complemento"
          [] k = "Bairro" -> "bairro"
          [] k = "Municipio" -> "municipio"
          [] k = "UF" -> "uf"
          [] k = "CEP" -> "cep"
          [] k = "E-mail" -> "email"
          [] k = "Telefone 1" -> "ddd_telefone_1"
          [] k = "Telefone 2" -> "ddd_telefone_2"]

\* a record with the 22 fields, none of them null
RegistroCompleto(registro) ==
    /\ DOMAIN registro = CamposSet
    /\ \A k \in CamposSet : registro[k] # None

\* C18: every record a lookup returns and every record stored in
\* resultados_map has the same 22 fields, none of them null, and in the
\* record built from a 200 every field whose key the body lacks or gives as
\* null is "".
C18_AllFieldsPresent ==
    /\ Cardinality(CamposSet) = 22
    /\ pc = "returned" => RegistroCompleto(res)
    /\ \A c \in DOMAIN resultados_map : RegistroCompleto(resultados_map[c])
    /\ (pc = "returned" /\ r.status = 200 /\ r.corpo \in CorposObjeto)
          => \A k \in DOMAIN ChaveDoCampo :
                Get(Json(r.corpo), ChaveDoCampo[k], None) = None => res[k] = ""

\* C19: a lookup that spends its budget returns the record of its last,
\* (MAX_RETRIES + 1)-th, failure: named "Erro apos retries: ..." when that
\* failure was a retryable status and "Erro de rede: ..." when it was a
\* transport failure, whatever the kinds of the failures before it.
C19_LastFailureDecides ==
    (pc = "returned" /\ Len(hist) = MAX_RETRIES + 1)
        => /\ hist[MAX_RETRIES + 1] = "http"
                 => /\ StartsWith(Nome(res), "Erro apos retries: ")
                    /\ r.status \in {429, 500, 502, 503, 504}
           /\ hist[MAX_RETRIES + 1] = "rede"
                 => /\ StartsWith(Nome(res), "Erro de rede: ")
                    /\ r.status \notin {429, 500, 502, 503, 504}
           /\ res = RegistroErro(lista_unicos[pos], Nome(res))

\* three transport failures, then the retryable status that ends the lookup
C19_Witness ==
    /\ pc = "returned"
    /\ hist = <<"rede", "rede", "rede", "http">>
    /\ StartsWith(Nome(res), "Erro apos retries: ")

\* C20: the three counters sum to the number of loop iterations completed,
\* which is the number of identifiers stored whenever the loop is between
\* two iterations; an iteration adds one to exactly one counter; and when
\* the run is over the sum is the number of distinct normalized identifiers
\* of the sheet, not its number of rows.
C20_CountersSumToDistinct ==
    /\ [](pc \in {"loop", "request", "returned", "aborted", "done"}
            => /\ ok + inval + err = pos - 1
               /\ pc \in {"loop", "done"}
                     => ok + inval + err = Cardinality(DOMAIN resultados_map)
               /\ pc = "done"
                     => ok + inval + err
                          = Cardinality({normaliza_cnpj(planilha[i]) :
                                            i \in 1..Len(planilha)}))
    /\ [][ (pc \in {"loop", "returned"} /\ pos' = pos + 1)
            => /\ ok' + inval' + err' = ok + inval + err + 1
               /\ ok' >= ok /\ inval' >= inval /\ err' >= err
               /\ DOMAIN resultados_map' = DOMAIN resultados_map \cup {lista_unicos[pos]}
          ]_vars

\* two rows, one identifier, one count
C20_Witness ==
    /\ pc = "done"
    /\ Len(planilha) = 2
    /\ Len(lista_unicos) = 1
    /\ inval = 1 /\ ok = 0 /\ err = 0

====
